---- MODULE Spec2Model ----
(***************************************************************************)
(* Model of gmapswrapper.GMapsWrapper: a pickle-file cache in front of the *)
(* Google Maps geocoding API.                                              *)
(*                                                                         *)
(* The durable state is the content of the cache file (`disk`).  One       *)
(* geocode() call is modelled step by step: the load, then for each        *)
(* address the lookup (cache hit, or request-log append + provider call +  *)
(* cache insert + store in the result dict) and the checkpoint test of     *)
(* lines 104-108.  remove_item_from_cache() and clean_cache() are single   *)
(* steps in Spec; SpecCrash takes the cache write apart, SpecConc adds a   *)
(* second process on the same file.  Variables named like the locals of    *)
(* geocode() are those locals; hist, writes, disk0, lastOutcome and        *)
(* argtype are history variables that the program does not have and that   *)
(* never influence a step.                                                 *)
(***************************************************************************)
EXTENDS Naturals, Integers, Sequences, FiniteSets, TLC

VARIABLES
    disk,        \* self.cachefile: NoFile or the file with its pickled bytes
    pc,          \* "idle" | "lookup" | "ckpt" | "done": position in geocode()
    err,         \* exception the last operation raised to its caller, or "none"
    cache,       \* geocode(): local `cache` (NoCache outside a call)
    addresses,   \* geocode(): the argument, as the sequence it iterates
    i,           \* geocode(): loop index of enumerate(addresses), 0-based
    geocoded_addresses,                  \* geocode(): the result dict
    fetched_res_since_last_cachewrite,   \* geocode(): the dirty flag
    hist,        \* history: one record per address processed in this call
    writes,      \* history: 1-based positions after which this call wrote the file
    disk0,       \* history: content of the cache file when this call started
    lastOutcome, \* history: address -> how its latest provider call ended,
                 \* or its deletion from the cache file since that call
    argtype,     \* history: type of the argument of the latest geocode() call
                 \* if it is no list, tuple or set, else "none"
    peer         \* a second process working on the same cache file: its
                 \* position and its local `cache`

vars == <<disk, pc, err, cache, addresses, i, geocoded_addresses,
          fetched_res_since_last_cachewrite, hist, writes, disk0,
          lastOutcome, argtype, peer>>

locals == <<cache, addresses, i, geocoded_addresses,
            fetched_res_since_last_cachewrite, hist, writes, disk0>>

(***************************************************************************)
(* Program constants and bounds                                            *)
(***************************************************************************)
AUTSAVE_CACHE_EVERY_NTH_REQUEST == 10

CACHE_VERSION == 1

\* Spec: addresses 1..NumAddr, batches of every length up to MaxLen.
NumAddr == 2
MaxLen == 2
\* the request log is unbounded in the program; a call starts only if the log
\* can take one entry per address of the batch that is not in the file
MaxRequests == 3
\* SpecLong: batches <<1, 2, ..., K>> for K up to MaxBatch
MaxBatch == 11
\* SpecConc: batches of every length up to MaxConcLen
MaxConcLen == 1

Addr == 1..NumAddr

(***************************************************************************)
(* Python values                                                           *)
(***************************************************************************)
\* None and lists are tagged so that None, [] and [m, ...] are three values
None == [tag |-> "None", items |-> <<>>]
List(s) == [tag |-> "list", items |-> s]

\* bool(x) of Python for None and lists: `if geocode_results:` (line 95)
Truthy(x) == x.tag = "list" /\ Len(x.items) > 0

\* dict operations
EmptyDict == <<>>
Put(d, k, v) == [x \in (DOMAIN d) \cup {k} |-> IF x = k THEN v ELSE d[x]]
Del(d, k) == [x \in (DOMAIN d) \ {k} |-> d[x]]

\* the match records a provider can return for an address
Match(a, n) == [place_id |-> a, rank |-> n]
OneMatch(a) == <<Match(a, 1)>>
TwoMatches(a) == <<Match(a, 1), Match(a, 2)>>

\* googlemaps.exceptions.* and any other exception
ExcKinds == {"HTTPError", "TransportError", "Timeout", "Other"}

\* what self.gmaps.geocode(addr) can do: return a list (rich: one or two
\* matches or none; plain: one match or none) or raise
RichProvider(a) ==
    [kind : {"return"}, value : {<<>>, OneMatch(a), TwoMatches(a)}]
        \cup [kind : ExcKinds, value : {<<>>}]
PlainProvider(a) ==
    [kind : {"return"}, value : {<<>>, OneMatch(a)}]
        \cup [kind : ExcKinds, value : {<<>>}]
\* a provider that finds one match for every address
FindingProvider(a) == {[kind |-> "return", value |-> OneMatch(a)]}
\* a provider that finds one match or raises
FlakyProvider(a) ==
    {[kind |-> "return", value |-> OneMatch(a)]}
        \cup [kind : ExcKinds, value : {<<>>}]
Provider(which, a) ==
    IF which = "rich" THEN RichProvider(a)
    ELSE IF which = "plain" THEN PlainProvider(a)
    ELSE IF which = "flaky" THEN FlakyProvider(a)
    ELSE FindingProvider(a)

(***************************************************************************)
(* The cache file                                                          *)
(***************************************************************************)
NoFile == [exists |-> FALSE]
File(bytes) == [exists |-> TRUE, bytes |-> bytes]
NoCache == [exists |-> FALSE]

\* _load_cache(), the else branch: the new cache object.  The request log
\* '_requests'['geocoding'] is a list of timestamps that nothing reads: it
\* is modelled by its length.
NewCache == [version |-> CACHE_VERSION, requests |-> 0, geocoding |-> EmptyDict]

\* the least element of a non-empty set of addresses
MinOf(S) == CHOOSE x \in S : \A y \in S : x <= y

\* pickle of a dict: its items one after the other.  Python writes them in
\* insertion order, which pickle.load restores; the dicts of the model have
\* no order and their items are written by ascending key.
RECURSIVE PickleItems(_, _)
PickleItems(d, keys) ==
    IF keys = {} THEN <<>>
    ELSE LET k == MinOf(keys) IN
         <<<<k, d[k]>>>> \o PickleItems(d, keys \ {k})

\* pickle.dump(cache, f): the bytes of the cache object, key by key
Pickle(c) ==
    << <<"_version", c.version>>,
       <<"_requests", c.requests>>,
       <<"geocoding", PickleItems(c.geocoding, DOMAIN c.geocoding)>> >>

\* a complete pickle; pickle.load raises on anything shorter
CompletePickle(bytes) == Len(bytes) = 3

\* pickle.load(f): the object rebuilt from the bytes, each dict filled item
\* by item (a later item of a key replaces an earlier one)
RECURSIVE UnpickleItems(_)
UnpickleItems(items) ==
    IF items = <<>> THEN EmptyDict
    ELSE LET n == Len(items) IN
         Put(UnpickleItems(SubSeq(items, 1, n - 1)), items[n][1], items[n][2])

UnpickleDropsLog(bytes) ==
    [version |-> bytes[1][2], requests |-> 0,
     geocoding |-> UnpickleItems(bytes[3][2])]

Unpickle(bytes) ==
    [version |-> bytes[1][2], requests |-> bytes[2][2],
     geocoding |-> UnpickleItems(bytes[3][2])]

\* lines 114-117: pickle.load returns for no file (new cache object) and for
\* a complete pickle, and raises for a truncated one
Loadable(d) == IF d = NoFile THEN TRUE ELSE CompletePickle(d.bytes)

\* _load_cache(): pickle.load of the file, or the new cache object
LoadCache(d) == IF d # NoFile THEN Unpickle(d.bytes) ELSE NewCache

\* _write_cache(cache): open(..., 'wb') and pickle.dump replace the file
\* content by the pickle of `cache`
WriteCache(c) == File(Pickle(c))

(***************************************************************************)
(* geocode(): the pieces of the loop body                                  *)
(***************************************************************************)
\* variant: the membership test never succeeds (the address is looked up in
\* `cache`, whose keys are '_version', '_requests' and 'geocoding')
CacheHitNever(geocoding_cache, addr) == FALSE

\* line 72: `if addr in geocoding_cache`
CacheHit(geocoding_cache, addr) == addr \in DOMAIN geocoding_cache

\* variant: the request is logged after the provider call, so a call that
\* raises leaves no entry
LogRequestOnReturn(c, o) ==
    IF o.kind = "return" THEN [c EXCEPT !.requests = @ + 1] ELSE c

\* line 80: cache['_requests']['geocoding'].append(datetime.now()), before
\* the provider call and so whatever its outcome o
LogRequest(c, o) == [c EXCEPT !.requests = @ + 1]

\* variant: an exception gives the empty list
GeocodeResultsEmptyOnError(o) ==
    IF o.kind = "return" THEN List(o.value) ELSE List(<<>>)

\* variant: an empty list is replaced by None
GeocodeResultsNoneIfEmpty(o) ==
    IF o.kind = "return" /\ o.value # <<>> THEN List(o.value) ELSE None

\* lines 79-93: the value of geocode_results after the try statement: the
\* provider's list, or None when any exception was caught
GeocodeResults(o) == IF o.kind = "return" THEN List(o.value) ELSE None

\* lines 84-91: the branch of the logger.error chain taken for an exception
ErrorLogged(o) ==
    CASE o.kind = "HTTPError" -> "HTTP error"
      [] o.kind = "TransportError" -> "transport error"
      [] o.kind = "Timeout" -> "timeout"
      [] OTHER -> "unknown exception"

\* variant: the section is replaced by a dict of the new result alone
SaveToCacheReplaces(geocoding_cache, addr, geocode_results) ==
    IF Truthy(geocode_results)
    THEN Put(EmptyDict, addr, geocode_results)
    ELSE geocoding_cache

\* variant: `if geocode_results is not None`
SaveToCacheNotNone(geocoding_cache, addr, geocode_results) ==
    IF geocode_results # None
    THEN Put(geocoding_cache, addr, geocode_results)
    ELSE geocoding_cache

\* variant: the result is stored without a test
SaveToCacheAlways(geocoding_cache, addr, geocode_results) ==
    Put(geocoding_cache, addr, geocode_results)

\* lines 95-98: `if geocode_results: geocoding_cache[addr] = geocode_results`
SaveToCache(geocoding_cache, addr, geocode_results) ==
    IF Truthy(geocode_results)
    THEN Put(geocoding_cache, addr, geocode_results)
    ELSE geocoding_cache

\* variant: line 101 is inside the `if geocode_results:` block
StoreResultIfTruthy(results, addr, geocode_results) ==
    IF Truthy(geocode_results) THEN Put(results, addr, geocode_results)
    ELSE results

\* line 101: geocoded_addresses[addr] = geocode_results
StoreResult(results, addr, geocode_results) ==
    Put(results, addr, geocode_results)

\* variant: no write after the last address
CheckpointDueIntervalOnly(idx, n, fetched) ==
    /\ (idx + 1) % AUTSAVE_CACHE_EVERY_NTH_REQUEST = 0
    /\ fetched

\* variant: no write every Nth address
CheckpointDueFinalOnly(idx, n, fetched) ==
    /\ idx = n - 1
    /\ fetched

\* variant: the flag is not tested
CheckpointDueIgnoresFlag(idx, n, fetched) ==
    \/ (idx + 1) % AUTSAVE_CACHE_EVERY_NTH_REQUEST = 0
    \/ idx = n - 1

\* variant: `i % N == 0` in place of `(i+1) % N == 0`
CheckpointDueOffByOne(idx, n, fetched) ==
    /\ \/ idx % AUTSAVE_CACHE_EVERY_NTH_REQUEST = 0
       \/ idx = n - 1
    /\ fetched

\* lines 104-105: the condition of the regular cache write (idx 0-based)
CheckpointDue(idx, n, fetched) ==
    /\ \/ (idx + 1) % AUTSAVE_CACHE_EVERY_NTH_REQUEST = 0
       \/ idx = n - 1
    /\ fetched

\* history: how a provider call ended
OutcomeKind(o) ==
    IF o.kind # "return" THEN "fail"
    ELSE IF o.value = <<>> THEN "empty" ELSE "ok"

\* the length of the request log and the keys of the results mapping that
\* a file holds, read from its pickle
RequestsOf(d) == IF d = NoFile THEN 0 ELSE d.bytes[2][2]
KeysOf(d) ==
    IF d = NoFile THEN {}
    ELSE {d.bytes[3][2][j][1] : j \in 1..Len(d.bytes[3][2])}

(***************************************************************************)
(* Initial state: a new GMapsWrapper on a cache directory without a file   *)
(***************************************************************************)
\* the second process is in no operation
PeerIdle == [pc |-> "idle", cache |-> NoCache, item_id |-> 0, loadedAt |-> 0]

Init ==
    /\ disk = NoFile
    /\ pc = "idle"
    /\ err = "none"
    /\ cache = NoCache
    /\ addresses = <<>>
    /\ i = 0
    /\ geocoded_addresses = EmptyDict
    /\ fetched_res_since_last_cachewrite = FALSE
    /\ hist = <<>>
    /\ writes = <<>>
    /\ disk0 = NoFile
    /\ lastOutcome = EmptyDict
    /\ argtype = "none"
    /\ peer = PeerIdle

\* the types of argument geocode() is called with
ArgTypes == {"list", "tuple", "set", "str", "dict"}

\* variant: the type test of lines 62-63 is missing
AcceptedTypeAny(t) == TRUE

\* line 62: isinstance(addresses, (list, tuple, set))
AcceptedType(t) == t \in {"list", "tuple", "set"}

\* an operation of the wrapper can be called when no geocode() is running
Callable == pc = "idle"

ResetLocals ==
    /\ cache' = NoCache
    /\ addresses' = <<>>
    /\ i' = 0
    /\ geocoded_addresses' = EmptyDict
    /\ fetched_res_since_last_cachewrite' = FALSE
    /\ hist' = <<>>
    /\ writes' = <<>>
    /\ disk0' = disk

(***************************************************************************)
(* geocode(addresses)                                                      *)
(***************************************************************************)
\* lines 62-63: the argument is no list, tuple or set
GeocodeBadType ==
    /\ Callable
    /\ \E t \in ArgTypes :
        /\ ~AcceptedType(t)
        /\ argtype' = t
    /\ pc' = "idle"
    /\ err' = "ValueError"
    /\ ResetLocals
    /\ UNCHANGED peer
    /\ UNCHANGED <<disk, lastOutcome>>

\* lines 62-69: the argument is a list or tuple, or a set in the order its
\* iteration gives; the cache is loaded and the locals initialised
GeocodeCall(batches, maxlog) ==
    /\ Callable
    /\ \E t \in ArgTypes :
        /\ AcceptedType(t)
        /\ argtype' = IF t \in {"list", "tuple", "set"} THEN "none" ELSE t
    /\ \E addrs \in batches :
        /\ Cardinality({p \in 1..Len(addrs) : addrs[p] \notin KeysOf(disk)})
             <= maxlog - RequestsOf(disk)
        /\ addresses' = addrs
        /\ pc' = IF Len(addrs) = 0 THEN "done" ELSE "lookup"
    /\ err' = "none"
    /\ cache' = LoadCache(disk)
    /\ i' = 0
    /\ geocoded_addresses' = EmptyDict
    /\ fetched_res_since_last_cachewrite' = FALSE
    /\ hist' = <<>>
    /\ writes' = <<>>
    /\ disk0' = disk
    /\ UNCHANGED <<disk, lastOutcome, peer>>

\* lines 72-74 and 101: cache hit
LookupHit ==
    /\ pc = "lookup"
    /\ LET addr == addresses[i + 1] IN
        /\ CacheHit(cache.geocoding, addr)
        /\ geocoded_addresses' =
               StoreResult(geocoded_addresses, addr, cache.geocoding[addr])
        /\ hist' = Append(hist, [addr |-> addr, kind |-> "hit",
                                 prev |-> IF addr \in DOMAIN lastOutcome
                                          THEN lastOutcome[addr].kind
                                          ELSE "none"])
    /\ pc' = "ckpt"
    /\ UNCHANGED <<disk, err, cache, addresses, i,
                   fetched_res_since_last_cachewrite, writes, disk0,
                   lastOutcome, argtype, peer>>

\* lines 75-101: no cache hit: the flag is set, the request is logged, the
\* provider is called, a truthy result is cached, the result is stored
LookupMiss(which) ==
    /\ pc = "lookup"
    /\ LET addr == addresses[i + 1] IN
        /\ ~CacheHit(cache.geocoding, addr)
        /\ \E o \in Provider(which, addr) :
            LET geocode_results == GeocodeResults(o) IN
            /\ cache' = [LogRequest(cache, o) EXCEPT
                           !.geocoding = SaveToCache(@, addr, geocode_results)]
            /\ geocoded_addresses' =
                   StoreResult(geocoded_addresses, addr, geocode_results)
            /\ hist' = Append(hist, [addr |-> addr, kind |-> OutcomeKind(o),
                                     prev |-> IF addr \in DOMAIN lastOutcome
                                              THEN lastOutcome[addr].kind
                                              ELSE "none"])
            /\ lastOutcome' = Put(lastOutcome, addr,
                                  [kind |-> OutcomeKind(o), value |-> o.value])
    /\ fetched_res_since_last_cachewrite' = TRUE
    /\ pc' = "ckpt"
    /\ UNCHANGED <<disk, err, addresses, i, writes, disk0, argtype, peer>>

\* lines 103-108, then the next iteration or `return geocoded_addresses`
Checkpoint ==
    /\ pc = "ckpt"
    /\ IF CheckpointDue(i, Len(addresses), fetched_res_since_last_cachewrite)
       THEN /\ disk' = WriteCache(cache)
            /\ fetched_res_since_last_cachewrite' = FALSE
            /\ writes' = Append(writes, i + 1)
       ELSE UNCHANGED <<disk, fetched_res_since_last_cachewrite, writes>>
    /\ i' = i + 1
    /\ pc' = IF i + 1 = Len(addresses) THEN "done" ELSE "lookup"
    /\ UNCHANGED <<err, cache, addresses, geocoded_addresses, hist, disk0,
                   lastOutcome, argtype, peer>>

\* line 110: `return geocoded_addresses`: the call is over and its locals
\* are gone
GeocodeReturn ==
    /\ pc = "done"
    /\ pc' = "idle"
    /\ ResetLocals
    /\ argtype' = "none"
    /\ UNCHANGED peer
    /\ UNCHANGED <<disk, err, lastOutcome>>

(***************************************************************************)
(* clean_cache() and remove_item_from_cache(item_id, section)              *)
(***************************************************************************)
\* history: the addresses of lastOutcome that are in `keys` get the event
Deleted(keys, event) ==
    [a \in DOMAIN lastOutcome |->
        IF a \in keys THEN [kind |-> event, value |-> <<>>] ELSE lastOutcome[a]]

\* history: the keys of the results mapping a readable file holds
StoredKeys(d) == IF Loadable(d) THEN KeysOf(d) ELSE {}

\* variant: the file is emptied of its request log and kept
CleanedDiskKeepsResults(d) ==
    IF d # NoFile /\ Loadable(d)
    THEN WriteCache([LoadCache(d) EXCEPT !.requests = 0])
    ELSE NoFile

\* lines 46-47: `if os.path.isfile(self.cachefile): os.unlink(...)`
CleanedDisk(d) == IF d # NoFile THEN NoFile ELSE d

\* lines 46-47: os.unlink is called only on an existing file and raises
\* nothing
CleanError(d) == "none"

\* lines 44-47
CleanCache ==
    /\ Callable
    /\ disk' = CleanedDisk(disk)
    /\ pc' = "idle"
    /\ err' = CleanError(disk)
    /\ ResetLocals
    /\ argtype' = "none"
    /\ UNCHANGED peer
    /\ lastOutcome' = Deleted(StoredKeys(disk), "cleaned")

\* variant: the section is replaced by an empty dict
RemoveItemClearsSection(item_id) ==
    [LoadCache(disk) EXCEPT !.geocoding = EmptyDict]

\* variant: the `del` is missing
RemoveItemKeeps(item_id) == LoadCache(disk)

\* lines 49-55 with section = 'geocoding': load, delete if present, write
RemoveItem(item_id) ==
    LET loaded == LoadCache(disk) IN
    IF item_id \in DOMAIN loaded.geocoding
    THEN [loaded EXCEPT !.geocoding = Del(@, item_id)]
    ELSE loaded

\* lines 52-53 on a cache that was loaded before
DelItem(c, item_id) ==
    IF item_id \in DOMAIN c.geocoding
    THEN [c EXCEPT !.geocoding = Del(@, item_id)]
    ELSE c

RemoveItemFromCache(ids) ==
    /\ Callable
    /\ \E item_id \in ids :
        /\ disk' = WriteCache(RemoveItem(item_id))
        /\ lastOutcome' = Deleted(KeysOf(disk) \cap {item_id}, "removed")
    /\ pc' = "idle"
    /\ err' = "none"
    /\ ResetLocals
    /\ argtype' = "none"
    /\ UNCHANGED peer

\* lines 51-52 with a section that is no key of the cache: cache[section]
\* raises KeyError before anything is written
RemoveItemBadSection ==
    /\ Callable
    /\ pc' = "idle"
    /\ err' = "KeyError"
    /\ ResetLocals
    /\ argtype' = "none"
    /\ UNCHANGED peer
    /\ UNCHANGED <<disk, lastOutcome>>

(***************************************************************************)
(* Specifications                                                          *)
(***************************************************************************)
RECURSIVE SeqsUpTo(_, _)
SeqsUpTo(S, n) ==
    IF n = 0 THEN {<<>>}
    ELSE LET shorter == SeqsUpTo(S, n - 1) IN
         shorter \cup {Append(s, x) : s \in {t \in shorter : Len(t) = n - 1}, x \in S}

\* every list of at most MaxLen addresses out of Addr
Batches == SeqsUpTo(Addr, MaxLen)

\* the lists <<1, ..., K>>: K distinct addresses
LongBatches == {[k \in 1..K |-> k] : K \in 0..MaxBatch}

Next ==
    \/ GeocodeBadType
    \/ GeocodeCall(Batches, MaxRequests)
    \/ LookupHit
    \/ LookupMiss("rich")
    \/ Checkpoint
    \/ GeocodeReturn
    \/ CleanCache
    \/ RemoveItemFromCache(Addr)
    \/ RemoveItemBadSection

Spec == Init /\ [][Next]_vars

\* SpecFair: Spec with the steps of a running geocode() call taken sooner or
\* later: the interpreter goes on, the provider call returns or raises (at
\* the latest when its own timeout fires), and no read or write of the file
\* raises.  No operation is ever forced to be called.
SpecFair ==
    /\ Spec
    /\ WF_vars(LookupHit)
    /\ WF_vars(LookupMiss("rich"))
    /\ WF_vars(Checkpoint)

(***************************************************************************)
(* SpecLong: one geocode() call of a new process on a list of up to        *)
(* MaxBatch distinct addresses, longer than the autosave interval.  The    *)
(* cache directory may hold the file an earlier process left: its keys are *)
(* none, a prefix 1..j of the addresses, or the address at the autosave    *)
(* position alone.                                                         *)
(***************************************************************************)
\* the file geocode() leaves after fetching the addresses S with success
PriorDisk(S) ==
    IF S = {} THEN NoFile
    ELSE WriteCache([version |-> CACHE_VERSION, requests |-> Cardinality(S),
                     geocoding |-> [a \in S |-> List(OneMatch(a))]])

PriorKeySets ==
    {1..j : j \in 0..MaxBatch}
        \cup {{AUTSAVE_CACHE_EVERY_NTH_REQUEST},
              {AUTSAVE_CACHE_EVERY_NTH_REQUEST + 1}}

InitLong ==
    /\ \E S \in PriorKeySets :
        /\ disk = PriorDisk(S)
        /\ disk0 = PriorDisk(S)
        /\ lastOutcome = [a \in S |-> [kind |-> "ok", value |-> OneMatch(a)]]
    /\ pc = "idle"
    /\ err = "none"
    /\ cache = NoCache
    /\ addresses = <<>>
    /\ i = 0
    /\ geocoded_addresses = EmptyDict
    /\ fetched_res_since_last_cachewrite = FALSE
    /\ hist = <<>>
    /\ writes = <<>>
    /\ argtype = "none"
    /\ peer = PeerIdle

NextLong ==
    \/ (pc = "idle" /\ GeocodeCall(LongBatches, 2 * MaxBatch))
    \/ LookupHit
    \/ LookupMiss("plain")
    \/ Checkpoint

SpecLong == InitLong /\ [][NextLong]_vars

\* SpecFlaky: the call of SpecLong with a provider that finds the address
\* or raises
NextFlaky ==
    \/ (pc = "idle" /\ GeocodeCall(LongBatches, 2 * MaxBatch))
    \/ LookupHit
    \/ LookupMiss("flaky")
    \/ Checkpoint

SpecFlaky == InitLong /\ [][NextFlaky]_vars

(***************************************************************************)
(* SpecCrash: the operations of Spec with _write_cache() in its steps: the *)
(* open(..., 'wb') that truncates the file and the writes of pickle.dump.  *)
(* The process can be killed at any step of an operation, a write can fail *)
(* part-way, and the next operation runs in a new process on what is left  *)
(* in the file.                                                            *)
(***************************************************************************)
\* line 130: open(self.cachefile, 'wb') leaves an empty file
Truncated == File(<<>>)

\* line 132: pickle.dump has written one more piece of the pickle of c
DumpMore(d, c) == File(SubSeq(Pickle(c), 1, Len(d.bytes) + 1))

\* lines 104-107 and 130: the cache write is due and the file is opened
CheckpointOpen ==
    /\ pc = "ckpt"
    /\ CheckpointDue(i, Len(addresses), fetched_res_since_last_cachewrite)
    /\ disk' = Truncated
    /\ pc' = "dump"
    /\ UNCHANGED <<err, cache, addresses, i, geocoded_addresses,
                   fetched_res_since_last_cachewrite, hist, writes, disk0,
                   lastOutcome, argtype, peer>>

\* lines 132 and 108: pickle.dump writes on; with the last piece the write
\* is done, the flag is reset and the loop goes on
CheckpointDump ==
    /\ pc = "dump"
    /\ disk' = DumpMore(disk, cache)
    /\ IF CompletePickle(disk'.bytes)
       THEN /\ fetched_res_since_last_cachewrite' = FALSE
            /\ writes' = Append(writes, i + 1)
            /\ i' = i + 1
            /\ pc' = IF i + 1 = Len(addresses) THEN "done" ELSE "lookup"
       ELSE UNCHANGED <<fetched_res_since_last_cachewrite, writes, i, pc>>
    /\ UNCHANGED <<err, cache, addresses, geocoded_addresses, hist, disk0,
                   lastOutcome, argtype, peer>>

\* lines 51-55 and 130: remove_item_from_cache() loads, deletes and opens
\* the file for writing
RemoveOpen(ids) ==
    /\ Callable
    /\ Loadable(disk)
    /\ \E item_id \in ids :
        /\ cache' = RemoveItem(item_id)
        /\ lastOutcome' = Deleted(KeysOf(disk) \cap {item_id}, "removed")
    /\ disk' = Truncated
    /\ pc' = "rmdump"
    /\ err' = "none"
    /\ addresses' = <<>>
    /\ i' = 0
    /\ geocoded_addresses' = EmptyDict
    /\ fetched_res_since_last_cachewrite' = FALSE
    /\ hist' = <<>>
    /\ writes' = <<>>
    /\ disk0' = disk
    /\ argtype' = "none"
    /\ UNCHANGED peer

\* line 132 in remove_item_from_cache()
RemoveDump ==
    /\ pc = "rmdump"
    /\ disk' = DumpMore(disk, cache)
    /\ pc' = IF CompletePickle(disk'.bytes) THEN "idle" ELSE "rmdump"
    /\ cache' = IF CompletePickle(disk'.bytes) THEN NoCache ELSE cache
    /\ UNCHANGED <<err, addresses, i, geocoded_addresses,
                   fetched_res_since_last_cachewrite, hist, writes, disk0,
                   lastOutcome, argtype, peer>>

\* the process is killed inside an operation: what is in memory is lost,
\* the file stays as it is
Kill ==
    /\ pc \in {"lookup", "ckpt", "dump", "rmdump"}
    /\ pc' = "idle"
    /\ err' = "killed"
    /\ ResetLocals
    /\ argtype' = "none"
    /\ UNCHANGED peer
    /\ UNCHANGED <<disk, lastOutcome>>

\* line 132: the write raises part-way (disk full); the exception leaves the
\* operation and the file stays as it is
WriteFails ==
    /\ pc \in {"dump", "rmdump"}
    /\ pc' = "idle"
    /\ err' = "OSError"
    /\ ResetLocals
    /\ argtype' = "none"
    /\ UNCHANGED peer
    /\ UNCHANGED <<disk, lastOutcome>>

\* lines 115-117 from line 51 or line 65: pickle.load raises on a truncated
\* file and the exception leaves geocode() or remove_item_from_cache()
LoadFails ==
    /\ Callable
    /\ ~Loadable(disk)
    /\ pc' = "idle"
    /\ err' = "EOFError"
    /\ ResetLocals
    /\ argtype' = "none"
    /\ UNCHANGED peer
    /\ UNCHANGED <<disk, lastOutcome>>

NextCrash ==
    \/ (Loadable(disk) /\ GeocodeCall(Batches, MaxRequests))
    \/ LoadFails
    \/ LookupHit
    \/ LookupMiss("plain")
    \/ (~CheckpointDue(i, Len(addresses), fetched_res_since_last_cachewrite)
          /\ Checkpoint)
    \/ CheckpointOpen
    \/ CheckpointDump
    \/ GeocodeReturn
    \/ RemoveOpen(Addr)
    \/ RemoveDump
    \/ CleanCache
    \/ Kill
    \/ WriteFails

SpecCrash == Init /\ [][NextCrash]_vars

(***************************************************************************)
(* SpecConc: a geocode() call of this process while a second process works *)
(* on the same cache file.  The second process runs                        *)
(* remove_item_from_cache(item_id), or geocode([a]) for an address a that  *)
(* is a miss in what it loaded.  The provider finds every address.  Each   *)
(* process                                                                 *)
(* loads, changes its own copy and writes the whole of it; no lock is      *)
(* taken.  A write is one step here.  hist, writes and lastOutcome record  *)
(* the call of this process only; peer.item_id and peer.loadedAt are       *)
(* history fields: the key the second process removed, and how many writes *)
(* this process's call had made when the second process loaded.            *)
(***************************************************************************)
\* variant: the write keeps the results that are in the file but not in `c`
OverwriteMerging(d, c) ==
    IF d = NoFile THEN WriteCache(c)
    ELSE LET x == LoadCache(d).geocoding
             y == c.geocoding
         IN  WriteCache([c EXCEPT !.geocoding =
                 [a \in DOMAIN x \cup DOMAIN y |->
                     IF a \in DOMAIN y THEN y[a] ELSE x[a]]])

\* lines 130-132 on a file d that another process wrote after `c` was
\* loaded: mode 'wb' drops what is there, the file becomes the pickle of c
Overwrite(d, c) == WriteCache(c)

\* line 51 or line 65 in the second process
PeerLoad ==
    /\ peer.pc \in {"idle", "written"}
    /\ peer' = [pc |-> "loaded", cache |-> LoadCache(disk), item_id |-> 0,
                loadedAt |-> Len(writes)]
    /\ UNCHANGED <<disk, pc, err, locals, lastOutcome, argtype>>

\* lines 52-55 in the second process
PeerRemoveItem(ids) ==
    /\ peer.pc = "loaded"
    /\ \E item_id \in ids :
        LET c == DelItem(peer.cache, item_id) IN
        /\ disk' = Overwrite(disk, c)
        /\ peer' = [peer EXCEPT !.pc = "written", !.cache = c,
                                !.item_id = item_id]
    /\ UNCHANGED <<pc, err, locals, lastOutcome, argtype>>

\* lines 75-101 in the second process, for geocode([a])
PeerFetch(addrs) ==
    /\ peer.pc = "loaded"
    /\ peer.cache.requests < MaxRequests
    /\ \E a \in addrs :
        LET o == [kind |-> "return", value |-> OneMatch(a)] IN
        /\ ~CacheHit(peer.cache.geocoding, a)
        /\ peer' = [peer EXCEPT
                      !.pc = "fetched",
                      !.cache = [LogRequest(peer.cache, o) EXCEPT
                                   !.geocoding =
                                       SaveToCache(@, a, GeocodeResults(o))]]
    /\ UNCHANGED <<disk, pc, err, locals, lastOutcome, argtype>>

\* lines 104-107 in the second process, after the only address
PeerCheckpoint ==
    /\ peer.pc = "fetched"
    /\ disk' = Overwrite(disk, peer.cache)
    /\ peer' = [peer EXCEPT !.pc = "written"]
    /\ UNCHANGED <<pc, err, locals, lastOutcome, argtype>>

NextConc ==
    \/ GeocodeCall(SeqsUpTo(Addr, MaxConcLen), MaxRequests)
    \/ LookupHit
    \/ LookupMiss("finding")
    \/ Checkpoint
    \/ GeocodeReturn
    \/ PeerLoad
    \/ PeerRemoveItem(Addr)
    \/ PeerFetch(Addr)
    \/ PeerCheckpoint

SpecConc == Init /\ [][NextConc]_vars

(***************************************************************************)
(* Properties                                                              *)
(***************************************************************************)
InCall == pc \in {"lookup", "ckpt", "done"}
N == AUTSAVE_CACHE_EVERY_NTH_REQUEST
Positions == 1..Len(hist)
Misses == {p \in Positions : hist[p].kind # "hit"}
MissesOf(a) == {p \in Misses : hist[p].addr = a}

\* C1: an address that is in the cache file when geocode() starts is a cache
\* hit at each of its positions: its entry of the result dict is the cached
\* value, the provider is not called for it, and every entry the call adds
\* to the request log belongs to a position of an address that was not in
\* the file, whatever the provider does for the other addresses.
C1_CachedAddressIsHit ==
    InCall =>
        /\ \A p \in Positions :
            hist[p].addr \in KeysOf(disk0) =>
                /\ hist[p].kind = "hit"
                /\ geocoded_addresses[hist[p].addr]
                     = LoadCache(disk0).geocoding[hist[p].addr]
        /\ cache.requests - RequestsOf(disk0)
             <= Cardinality({p \in Positions : hist[p].addr \notin KeysOf(disk0)})

C1_Witness ==
    /\ pc = "done"
    /\ \E p, q \in Positions :
        /\ hist[p].addr \in KeysOf(disk0)
        /\ hist[q].kind = "fail"

\* C2: when geocode() has returned, every address for which the provider
\* returned a non-empty list during the call has that list in the result
\* dict and in the cache file.
C2_FetchedIsReturnedAndDurable ==
    pc = "done" =>
        \A p \in Positions :
            hist[p].kind = "ok" =>
                LET a == hist[p].addr IN
                /\ a \in DOMAIN geocoded_addresses
                /\ geocoded_addresses[a] = List(lastOutcome[a].value)
                /\ Truthy(geocoded_addresses[a])
                /\ a \in KeysOf(disk)
                /\ LoadCache(disk).geocoding[a] = geocoded_addresses[a]

C2_Witness ==
    /\ pc = "done"
    /\ \E p, q \in Positions : hist[p].kind = "ok" /\ hist[q].kind = "fail"

\* C3: a lookup whose provider call raises any exception raises nothing to
\* the caller: the address gets None in the result dict, the cache gets no
\* entry, the loop goes on to the checkpoint test; and geocode() returns only
\* when every address of the batch has been processed.
C3_ProviderFailureIsAbsorbed ==
    /\ [][(Len(hist') = Len(hist) + 1 /\ hist'[Len(hist')].kind = "fail") =>
            /\ err' = "none"
            /\ pc' = "ckpt"
            /\ geocoded_addresses'[hist'[Len(hist')].addr] = None
            /\ cache'.geocoding = cache.geocoding]_vars
    /\ [](pc = "done" =>
            /\ err = "none"
            /\ Len(hist) = Len(addresses)
            /\ DOMAIN geocoded_addresses = {addresses[p] : p \in 1..Len(addresses)})

C3_Witness ==
    /\ pc = "done"
    /\ Len(hist) = 2
    /\ hist[1].kind = "fail"
    /\ hist[2].kind = "ok"

\* C4: every value of the results mapping, in the cache file and in the
\* cache a running call holds, is a non-empty list, and it is the list the
\* latest provider call for that address returned.
CachedValueWasReturned(geocoding) ==
    \A a \in DOMAIN geocoding :
        /\ Truthy(geocoding[a])
        /\ a \in DOMAIN lastOutcome
        /\ lastOutcome[a].kind = "ok"
        /\ geocoding[a] = List(lastOutcome[a].value)

C4_OnlySuccessfulResultsCached ==
    /\ disk # NoFile => CachedValueWasReturned(LoadCache(disk).geocoding)
    /\ InCall => CachedValueWasReturned(cache.geocoding)

C4_Witness ==
    /\ pc = "idle"
    /\ \E a, b \in DOMAIN lastOutcome :
        /\ a \in KeysOf(disk)
        /\ lastOutcome[b].kind \in {"empty", "fail"}
        /\ b \notin KeysOf(disk)

\* C5: an address whose latest provider call returned the empty list is not
\* in the cache, neither in the file nor in a running call, and every later
\* lookup of it calls the provider again.
C5_EmptyResultNotCached ==
    /\ \A a \in DOMAIN lastOutcome :
        lastOutcome[a].kind = "empty" =>
            /\ a \notin KeysOf(disk)
            /\ InCall => a \notin DOMAIN cache.geocoding
    /\ \A p \in Positions : hist[p].prev = "empty" => hist[p].kind # "hit"

\* the second of two calls on the one address, the provider empty both times
C5_Witness ==
    /\ pc = "done"
    /\ Len(addresses) = 1
    /\ hist[1].prev = "empty"
    /\ hist[1].kind = "empty"

\* C6: a call on K addresses that all need a fetch writes the cache file
\* exactly ceil(K / N) times, and the last write comes after the last address.
C6_WritesPerFreshBatch ==
    (pc = "done" /\ Misses = Positions) =>
        /\ Len(writes) = (Len(addresses) + N - 1) \div N
        /\ Len(addresses) > 0 => writes[Len(writes)] = Len(addresses)

C6_Witness ==
    /\ pc = "done"
    /\ Misses = Positions
    /\ Len(addresses) = N + 1
    /\ writes = <<N, N + 1>>

\* results that are in the cache of the running call and not in the file
Uncommitted ==
    IF InCall THEN Cardinality((DOMAIN cache.geocoding) \ KeysOf(disk)) ELSE 0

C8_OneLogEntryPerProviderCall ==
    /\ InCall => cache.requests = RequestsOf(disk0) + Cardinality(Misses)
    /\ pc = "done" => RequestsOf(disk) = RequestsOf(disk0) + Cardinality(Misses)

C8_Witness ==
    /\ pc = "done"
    /\ RequestsOf(disk0) > 0
    /\ \E p, q \in Positions : hist[p].kind = "hit" /\ hist[q].kind = "fail"

\* C9 as stated: after a lookup whose provider call raised or returned the
\* empty list, the result dict holds None for the address.
C9_Original ==
    (pc = "ckpt" /\ hist[Len(hist)].kind \in {"fail", "empty"}) =>
        geocoded_addresses[hist[Len(hist)].addr] = None

\* C9 as amended: after a provider call that raised the result dict holds
\* None; after one that returned the empty list it holds that empty list,
\* which is not None; neither value is truthy.
C9_NoneOrEmptyList ==
    pc = "ckpt" =>
        LET e == hist[Len(hist)] IN
        /\ e.kind = "fail" => geocoded_addresses[e.addr] = None
        /\ e.kind = "empty" => geocoded_addresses[e.addr] = List(<<>>)
        /\ e.kind \in {"fail", "empty"} => ~Truthy(geocoded_addresses[e.addr])

C9_Witness ==
    /\ pc = "ckpt"
    /\ hist[Len(hist)].kind = "empty"
    /\ geocoded_addresses[hist[Len(hist)].addr] # None

\* C10 as stated: no address has more than one provider call in one call of
\* geocode().
C10_Original ==
    InCall => \A a \in DOMAIN geocoded_addresses : Cardinality(MissesOf(a)) <= 1

\* C10 as amended: a later occurrence of an address in the batch is a cache
\* hit exactly when the occurrence before it was a hit or a fetch that
\* returned a non-empty list; after a fetch that raised or returned the
\* empty list the next occurrence calls the provider again.
C10_RepeatIsHitIffCached ==
    InCall =>
        \A p, q \in Positions :
            (/\ p < q
             /\ hist[p].addr = hist[q].addr
             /\ \A r \in (p + 1)..(q - 1) : hist[r].addr # hist[p].addr)
            => (hist[q].kind = "hit" <=> hist[p].kind \in {"ok", "hit"})

C10_Witness ==
    /\ pc = "done"
    /\ Len(hist) = 2
    /\ hist[1].addr = hist[2].addr
    /\ hist[1].kind = "ok"
    /\ hist[2].kind = "hit"

\* C11 as stated: whenever no write is in progress, also after a write that
\* was interrupted or that failed part-way, the cache file is absent or holds
\* one complete snapshot that _load_cache() can read back.
C11_Original ==
    pc \notin {"dump", "rmdump"} => Loadable(disk)

\* the positions of the call at which an address occurs for the first time
FirstPositions ==
    {p \in Positions : \A q \in 1..(p - 1) : hist[q].addr # hist[p].addr}

\* an address is in the results mapping exactly when its latest event is a
\* provider call that returned a non-empty list
CachedIffLastOk(keys) ==
    \A a \in DOMAIN lastOutcome : a \in keys <=> lastOutcome[a].kind = "ok"

\* C12: a key that remove_item_from_cache() deleted from section 'geocoding'
\* is out of the file while every other cached address stays in it, and the
\* next lookup of the removed address, in whatever later geocode() call,
\* calls the provider, while a lookup of an address that is still cached is
\* a hit.
C12_RemovedKeyIsFetchedAgain ==
    /\ pc \in {"idle", "done"} => CachedIffLastOk(KeysOf(disk))
    /\ InCall => CachedIffLastOk(DOMAIN cache.geocoding)
    /\ \A p \in Positions :
        /\ hist[p].prev = "removed" => hist[p].kind # "hit"
        /\ hist[p].prev = "ok" => hist[p].kind = "hit"

\* a call on two addresses after the removal of the one: a miss and a hit
C12_Witness ==
    /\ pc = "done"
    /\ \E p, q \in Positions :
        /\ hist[p].prev = "removed"
        /\ hist[p].kind # "hit"
        /\ hist[q].prev = "ok"
        /\ hist[q].kind = "hit"

\* C13: clean_cache() leaves no file and raises nothing, also when there was
\* no file; a load of no file gives the fresh empty cache (version 1, empty
\* request log, empty results); and in a geocode() call that started without
\* a file every address is fetched at its first occurrence, so that the log
\* of the call holds one entry per provider call and nothing else.
C13_CleanThenAllFresh ==
    /\ [][CleanCache =>
            /\ disk' = NoFile
            /\ err' = "none"
            /\ LoadCache(disk') = NewCache
            /\ NewCache = [version |-> 1, requests |-> 0, geocoding |-> <<>>]]_vars
    /\ [](InCall /\ disk0 = NoFile =>
            /\ \A p \in FirstPositions : hist[p].kind # "hit"
            /\ cache.version = 1
            /\ cache.requests = Cardinality(Misses))

\* the call after a clean_cache() that deleted a cached address
C13_Witness ==
    /\ pc = "done"
    /\ disk0 = NoFile
    /\ \E p \in Positions : hist[p].prev = "cleaned" /\ hist[p].kind # "hit"

\* C14: a geocode() call that has started its loop comes to its return, and
\* at the return every position of the input has been processed and the keys
\* of the result dict are the input addresses (none for an empty input).
C14_CallCompletes ==
    /\ (pc \in {"lookup", "ckpt"}) ~> (pc = "done")
    /\ [](pc = "done" =>
            /\ Len(hist) = Len(addresses)
            /\ i = Len(addresses)
            /\ \A p \in Positions : hist[p].addr = addresses[p]
            /\ DOMAIN geocoded_addresses = {addresses[p] : p \in 1..Len(addresses)}
            /\ addresses = <<>> => geocoded_addresses = EmptyDict)

\* a returned call on two addresses, the first lookup failed
C14_Witness ==
    /\ pc = "done"
    /\ Len(addresses) = 2
    /\ hist[1].kind = "fail"
    /\ DOMAIN geocoded_addresses = {addresses[1], addresses[2]}

\* C15: geocode() called with an argument that is no list, tuple or set
\* raises ValueError and does nothing else: no cache is loaded, no address is
\* looked up, the cache file is left as it is (none is created).
C15_BadTypeRaisesBeforeWork ==
    [][(pc = "idle" /\ argtype' \in ArgTypes \ {"list", "tuple", "set"}) =>
          /\ err' = "ValueError"
          /\ pc' = "idle"
          /\ cache' = NoCache
          /\ hist' = <<>>
          /\ geocoded_addresses' = EmptyDict
          /\ disk' = disk
          /\ RequestsOf(disk') = RequestsOf(disk)
          /\ lastOutcome' = lastOutcome]_vars

\* a str was passed while the file held a result; ValueError was raised
C15_Witness ==
    /\ argtype = "str"
    /\ err = "ValueError"
    /\ pc = "idle"
    /\ KeysOf(disk) # {}

\* C16 as stated: _write_cache(_load_cache()) leaves the cache file as it
\* is, also when there is no file.
C16_Original ==
    WriteCache(LoadCache(disk)) = disk

\* C16: _write_cache(_load_cache()) leaves an existing cache file as it is,
\* byte for byte; when there is no file it creates one that holds the new
\* cache object, and a further load and write changes nothing more.  In both
\* cases what is loaded afterwards is what was loaded before.
\* remove_item_from_cache() of a key that is not cached is this load and
\* write.
C16_RoundTrip ==
    LET saved == WriteCache(LoadCache(disk)) IN
    /\ disk # NoFile => saved = disk
    /\ disk = NoFile => saved = File(Pickle(NewCache)) /\ saved # disk
    /\ WriteCache(LoadCache(saved)) = saved
    /\ LoadCache(saved) = LoadCache(disk)
    /\ \A item_id \in Addr \ KeysOf(disk) : WriteCache(RemoveItem(item_id)) = saved

\* a file with two results and a non-empty request log
C16_Witness ==
    /\ Cardinality(KeysOf(disk)) = 2
    /\ RequestsOf(disk) > 0
    /\ WriteCache(LoadCache(disk)) = disk

PeerWrites == peer.pc \in {"loaded", "fetched"} /\ peer'.pc = "written"

\* C17: with a second process on the same file, a write of either process
\* leaves in the file exactly the results of the writer's own copy: a result
\* the other process has written since the writer loaded is gone unless the
\* writer has it too.  (The lost update itself is the state of C17_Witness.)
C17_LastWriterWins ==
    /\ [][PeerWrites =>
            /\ LoadCache(disk') = peer'.cache
            /\ \A a \in KeysOf(disk) \ DOMAIN peer'.cache.geocoding :
                   a \notin KeysOf(disk')]_vars
    /\ [][writes' # writes /\ writes' # <<>> =>
            /\ LoadCache(disk') = cache
            /\ \A a \in KeysOf(disk) \ DOMAIN cache.geocoding :
                   a \notin KeysOf(disk')]_vars

\* the lost update: this process's call fetched a result for an address and
\* wrote it; the second process, which had loaded before that write and did
\* not remove that address, wrote afterwards; the address is not in the file
C17_Witness ==
    /\ pc = "done"
    /\ peer.pc = "written"
    /\ writes # <<>>
    /\ peer.loadedAt < Len(writes)
    /\ \E p \in Positions :
        /\ hist[p].kind = "ok"
        /\ hist[p].addr \in DOMAIN cache.geocoding
        /\ hist[p].addr # peer.item_id
        /\ hist[p].addr \notin KeysOf(disk)

\* positions after which this call wrote the file, and the last of them
\* before position p (0 if there is none)
WrittenAt == {writes[k] : k \in 1..Len(writes)}
LastWriteBefore(p) ==
    LET earlier == {w \in WrittenAt : w < p} IN
    IF earlier = {} THEN 0 ELSE CHOOSE w \in earlier : \A v \in earlier : v <= w

\* C18: in a call on K addresses the file is written after the address at
\* position p (1-based, hits counted) exactly if p is a multiple of N or
\* p = K, and the provider was called at a position after the previous write
\* of the call and up to p.  The flag says whether the provider was called
\* since the last write.  A call with hits only, or on no address, writes
\* nothing.
C18_WriteIffDueAndDirty ==
    InCall =>
        /\ \A p \in 1..i :
            p \in WrittenAt <=>
                /\ p % N = 0 \/ p = Len(addresses)
                /\ \E q \in Misses : LastWriteBefore(p) < q /\ q <= p
        /\ WrittenAt \subseteq 1..i
        /\ pc \in {"lookup", "ckpt"} =>
            (fetched_res_since_last_cachewrite <=>
                \E q \in Misses : LastWriteBefore(Len(addresses) + 1) < q)
        /\ Misses = {} => writes = <<>>
        /\ addresses = <<>> => writes = <<>>

\* eleven addresses, the tenth was in the file: the file is written after
\* the tenth, a hit, for the nine fetched before it, and after the eleventh
C18_Witness ==
    /\ pc = "done"
    /\ Len(addresses) = N + 1
    /\ hist[N].kind = "hit"
    /\ writes = <<N, N + 1>>

\* C19: when a geocode() call comes to its return, what a load of the cache
\* file gives (the new cache object if there is no file) is the cache the
\* call holds in memory, results and request log, whatever the length of
\* the batch and whichever addresses were hits, fetched or failed.
C19_NothingUncommittedAtReturn ==
    pc = "done" =>
        /\ LoadCache(disk) = cache
        /\ RequestsOf(disk) = cache.requests
        /\ KeysOf(disk) = DOMAIN cache.geocoding
        /\ ~fetched_res_since_last_cachewrite

\* a returned call on eleven addresses with a hit, a fetched result and a
\* failed lookup among them, the last one a failure
C19_Witness ==
    /\ pc = "done"
    /\ Len(addresses) = N + 1
    /\ hist[1].kind = "hit"
    /\ \E p \in Positions : hist[p].kind = "ok"
    /\ hist[N + 1].kind = "fail"
    /\ LoadCache(disk) = cache

\* C20: every result that is in the cache file when geocode() starts is,
\* with the same value, in the cache of the call and in the file at every
\* step of the call; a step of the call never takes a key out of either.
\* A key leaves the file only by remove_item_from_cache() or clean_cache().
C20_GeocodeOnlyAdds ==
    /\ [](InCall =>
            \A a \in KeysOf(disk0) :
                /\ a \in DOMAIN cache.geocoding
                /\ cache.geocoding[a] = LoadCache(disk0).geocoding[a]
                /\ a \in KeysOf(disk)
                /\ LoadCache(disk).geocoding[a] = LoadCache(disk0).geocoding[a])
    /\ [][(pc \in {"lookup", "ckpt"}) =>
            /\ DOMAIN cache.geocoding \subseteq DOMAIN cache'.geocoding
            /\ KeysOf(disk) \subseteq KeysOf(disk')]_vars
    /\ [][~(KeysOf(disk) \subseteq KeysOf(disk')) =>
            /\ pc = "idle"
            /\ \A a \in KeysOf(disk) \ KeysOf(disk') :
                   lastOutcome'[a].kind \in {"removed", "cleaned"}]_vars

\* a call that found a result in the file, fetched one for another address
\* and wrote the file: the old result is there unchanged beside the new one
C20_Witness ==
    /\ pc = "done"
    /\ writes # <<>>
    /\ \E a \in KeysOf(disk0), b \in KeysOf(disk) \ KeysOf(disk0) :
        /\ LoadCache(disk).geocoding[a] = List(TwoMatches(a))
        /\ LoadCache(disk0).geocoding[a] = List(TwoMatches(a))
        /\ \E p \in Positions : hist[p].addr = b /\ hist[p].kind = "ok"

====
